---- MODULE Spec2Model ----
(***************************************************************************)
(* The invoice-generator back end as a state machine: the Express app of   *)
(* server.js (route table, 404 handler), the auth router (register, login, *)
(* refresh), the authenticateToken middleware with generateTokens, and the *)
(* user and template tables behind the Prisma client.                      *)
(*                                                                         *)
(* A request occupies a slot.  A handler runs from one await to the next   *)
(* in one step, so each action below is the piece of a handler between two *)
(* awaits; every database call is such an await and may throw.             *)
(***************************************************************************)
EXTENDS Integers, Sequences, FiniteSets, TLC

(* ------------------------------ bounds -------------------------------- *)
MaxReqs == 2        \* requests in flight at once
MaxUsers == 2       \* user rows ever created
MaxTemplates == 3   \* template rows ever created
MaxTicks == 1       \* clock advances
MaxHeld == 1        \* token pairs clients keep

(* ------------------------- program constants -------------------------- *)
AccessTTL == 900         \* expiresIn: '15m', in seconds
RefreshTTL == 604800     \* expiresIn: '7d', in seconds
MinPasswordLen == 6      \* isLength({ min: 6 })

NULL == "<null>"
Slots == 1..MaxReqs

(* --------------------------- request inputs --------------------------- *)
\* The e-mail addresses requests are sent with; "nope" is no address.
IsEmail(e) == e \in {"a@x.io", "A@X.io", "b@x.io", "c@x.io"}

\* normalizeEmail() lower-cases the address.
NormalizeEmail(e) == IF e = "A@X.io" THEN "a@x.io" ELSE e

\* trim() removes the surrounding blanks.
Trim(s) == IF s = " " THEN "" ELSE s

Currencies == {"USD", "EUR", "GBP", "CAD", "AUD"}

RegisterBodies ==
  { [email |-> "a@x.io", password |-> "secret1", firstName |-> "Ann",
     lastName |-> "Lee", currency |-> NULL],
    [email |-> "A@X.io", password |-> "secret1", firstName |-> "Ann",
     lastName |-> "Lee", currency |-> NULL],
    [email |-> "b@x.io", password |-> "hunter22", firstName |-> "Bob",
     lastName |-> "Ray", currency |-> "EUR"],
    [email |-> "nope", password |-> "123", firstName |-> " ",
     lastName |-> "Lee", currency |-> "XXX"] }

LoginBodies ==
  { [email |-> "A@X.io", password |-> "secret1"],
    [email |-> "a@x.io", password |-> "wrong77"],
    [email |-> "c@x.io", password |-> "secret1"],
    [email |-> "nope", password |-> ""] }

(* ------------------------------ bcrypt -------------------------------- *)
Salts == {"$2a$10$saltA"}

\* bcrypt.hash(password, salt): the salt followed by the digest of the pair.
Hash(password, salt) == salt \o "$" \o password

\* bcrypt.compare(password, hash): re-hash under the salt the hash carries.
Compare(password, hash) == \E s \in Salts : Hash(password, s) = hash

(* ----------------------------- validation ----------------------------- *)
FieldError(path, value, msg) == [path |-> path, value |-> value, msg |-> msg]

\* registerValidation followed by validationResult(req).array()
RegisterErrors(b) ==
  {FieldError("email", b.email, "Please enter a valid email") :
      x \in {e \in {b.email} : ~IsEmail(e)}}
  \cup
  {FieldError("password", b.password,
              "Password must be at least 6 characters long") :
      x \in {p \in {b.password} : Len(p) < MinPasswordLen}}
  \cup
  {FieldError("firstName", Trim(b.firstName), "First name is required") :
      x \in {f \in {b.firstName} : Trim(f) = ""}}
  \cup
  {FieldError("lastName", Trim(b.lastName), "Last name is required") :
      x \in {f \in {b.lastName} : Trim(f) = ""}}
  \cup
  {FieldError("currency", b.currency, "Invalid currency") :
      x \in {c \in {b.currency} : c # NULL /\ c \notin Currencies}}

\* loginValidation followed by validationResult(req).array()
LoginErrors(b) ==
  {FieldError("email", b.email, "Please enter a valid email") :
      x \in {e \in {b.email} : ~IsEmail(e)}}
  \cup
  {FieldError("password", b.password, "Password is required") :
      x \in {p \in {b.password} : p = ""}}

(* ------------------------------- tokens ------------------------------- *)
\* jwt.sign({ userId }, secret, { expiresIn }): the payload and who signed it.
Sign(userId, iat, ttl, key) ==
  [userId |-> userId, iat |-> iat, exp |-> iat + ttl, sig |-> key]

generateTokens(userId, t) ==
  [accessToken |-> Sign(userId, t, AccessTTL, "JWT_SECRET"),
   refreshToken |-> Sign(userId, t, RefreshTTL, "JWT_SECRET")]

\* Verify as jwt.decode: the payload is read, the signature is not checked.
Verify_DecodeOnly(token, t) ==
  IF t >= token.exp THEN "TokenExpiredError" ELSE "ok"

\* Verify with ignoreExpiration: the signature is checked, exp is not.
Verify_IgnoreExpiration(token, t) ==
  IF token.sig # "JWT_SECRET" THEN "JsonWebTokenError" ELSE "ok"

\* jwt.verify(token, secret) at clock t: the error's name, or "ok".
Verify(token, t) ==
  IF token.sig # "JWT_SECRET" THEN "JsonWebTokenError"
  ELSE IF t >= token.exp THEN "TokenExpiredError"
  ELSE "ok"

(* ------------------------------ routing ------------------------------- *)
ProtectedMounts == {"users", "clients", "invoices", "templates", "email"}

IsPrefix(p, s) == Len(p) <= Len(s) /\ SubSeq(s, 1, Len(p)) = p

\* The routes of the auth router: POST /register, /login, /refresh.
AuthRouter(method, sub) ==
  IF method = "POST" /\ sub = <<"register">> THEN "register"
  ELSE IF method = "POST" /\ sub = <<"login">> THEN "login"
  ELSE IF method = "POST" /\ sub = <<"refresh">> THEN "refresh"
  ELSE "next"

\* The app's middleware chain in mount order: which handler answers.
Route(method, path) ==
  IF method = "GET" /\ path = <<"health">> THEN "health"
  ELSE IF IsPrefix(<<"api", "auth">>, path)
          /\ AuthRouter(method, SubSeq(path, 3, Len(path))) # "next"
       THEN AuthRouter(method, SubSeq(path, 3, Len(path)))
  ELSE IF Len(path) >= 2 /\ path[1] = "api" /\ path[2] \in ProtectedMounts
       THEN "authenticateToken"
  ELSE IF method = "GET" /\ path = <<"api-docs">> THEN "apiDocs"
  ELSE "notFound"

\* endpoints.auth of the /api-docs listing
DocsAuthEndpoints ==
  { <<"POST", <<"api", "auth", "register">>>>,
    <<"POST", <<"api", "auth", "login">>>>,
    <<"POST", <<"api", "auth", "refresh">>>>,
    <<"POST", <<"api", "auth", "logout">>>> }

(* ------------------------------- state -------------------------------- *)
VARIABLES
  users,           \* the User table
  templates,       \* the Template table
  nextUserId,      \* the next fresh user id
  nextTemplateId,  \* the next fresh template id
  now,             \* the clock, in seconds
  ticks,           \* how often the clock advanced
  held,            \* the token pairs responses delivered and clients keep
  req,             \* the request in each slot: its input, locals and response
  calc,            \* the Computation Engine's run over an invoice's line items
  render,          \* the Data Binder's scan of a template
  browser          \* the front end: AuthProvider's state and localStorage

vars == <<users, templates, nextUserId, nextTemplateId, now, ticks, held, req,
          calc, render, browser>>

UserSelect == {"id", "email", "firstName", "lastName", "company", "logo",
               "currency", "timezone"}

\* Prisma's select: the row cut down to the chosen columns.
Select(row, cols) == [c \in cols |-> row[c]]

IdleSlot ==
  [pc |-> "idle", handler |-> "", method |-> "", path |-> <<>>,
   auth |-> <<>>, body |-> [none |-> TRUE],
   email |-> "", hashedPassword |-> "", user |-> {}, tokens |-> {},
   clockTimestamp |-> 0, threw |-> FALSE, invoked |-> FALSE, resp |-> <<>>]

\* res.status(status).json(...)
Response(status, error, message) ==
  [status |-> status, error |-> error, message |-> message,
   user |-> {}, tokens |-> {}, details |-> {}]

\* A slot takes a new request when it holds none or an answered one; the
\* lowest such slot takes it.
Free(r) ==
  /\ req[r].pc \in {"idle", "done"}
  /\ \A q \in 1..(r - 1) : req[q].pc \notin {"idle", "done"}

\* A former account: its row is gone, a token pair issued to it is still out.
GoneUserId == 0

\* A component that is not running.
Off == [pc |-> "off"]

\* The back end after start-up.
ServerInit ==
  /\ users = {}
  /\ templates = {}
  /\ nextUserId = 1
  /\ nextTemplateId = 1
  /\ now = 0
  /\ ticks = 0
  /\ held = {generateTokens(GoneUserId, 0)}
  /\ req = [r \in Slots |-> IdleSlot]

Init ==
  /\ ServerInit
  /\ calc = Off
  /\ render = Off
  /\ browser = Off

\* data.tokens of a 200 or 201 body: a client of the API keeps the pair it
\* was sent, over a pair it held when it has no room for one more.
Deliver(pair) ==
  IF Cardinality(held \cup {pair}) <= MaxHeld THEN {held \cup {pair}}
  ELSE {(held \ {q}) \cup {pair} : q \in held}

Accept(r, handler, method, path, auth, body) ==
  [IdleSlot EXCEPT !.handler = handler, !.method = method, !.path = path,
                   !.auth = auth, !.body = body]

Finish(slot, response) ==
  [slot EXCEPT !.pc = "done", !.resp = Append(slot.resp, response)]

InternalError == Response(500, "", "Internal server error")

(* ----------------------- POST /api/auth/register ---------------------- *)
\* Entry: validation, then the call of prisma.user.findUnique.
Register(r) ==
  /\ Free(r)
  /\ \E b \in RegisterBodies :
       LET slot == Accept(r, Route("POST", <<"api", "auth", "register">>),
                          "POST", <<"api", "auth", "register">>, <<>>, b)
       IN /\ slot.handler = "register"
          /\ req' = [req EXCEPT ![r] =
               IF RegisterErrors(b) # {}
               THEN Finish(slot, [Response(400, "", "Validation failed")
                                    EXCEPT !.details = RegisterErrors(b)])
               ELSE [slot EXCEPT !.pc = "reg_find",
                                 !.email = NormalizeEmail(b.email)]]
  /\ UNCHANGED <<users, templates, nextUserId, nextTemplateId, now, ticks, held>>
  /\ UNCHANGED <<calc, render, browser>>

\* findUnique({ where: { email } }) answers; then genSalt and hash.
RegFindExisting(r) ==
  /\ req[r].pc = "reg_find"
  /\ \/ req' = [req EXCEPT ![r] =
                  Finish([req[r] EXCEPT !.threw = TRUE], InternalError)]
     \/ /\ \E u \in users : u.email = req[r].email
        /\ req' = [req EXCEPT ![r] =
                  Finish(req[r], Response(400, "",
                                   "User already exists with this email"))]
     \/ /\ ~ \E u \in users : u.email = req[r].email
        /\ \E salt \in Salts :
             req' = [req EXCEPT ![r] =
                  [req[r] EXCEPT !.pc = "reg_create",
                     !.hashedPassword = Hash(req[r].body.password, salt)]]
  /\ UNCHANGED <<users, templates, nextUserId, nextTemplateId, now, ticks, held>>
  /\ UNCHANGED <<calc, render, browser>>

\* The row prisma.user.create inserts.
NewUserRow(id, slot, t) ==
  [id |-> id, email |-> slot.email, password |-> slot.hashedPassword,
   firstName |-> Trim(slot.body.firstName),
   lastName |-> Trim(slot.body.lastName),
   company |-> NULL, logo |-> NULL,
   currency |-> IF slot.body.currency = NULL THEN "USD"
                ELSE slot.body.currency,
   timezone |-> "UTC", createdAt |-> t]

\* RegCreateUser as an upsert: a taken email yields the row that has it.
RegCreateUser_Upsert(r) ==
  /\ req[r].pc = "reg_create"
  /\ \/ \E row \in users :
          /\ row.email = req[r].email
          /\ req' = [req EXCEPT ![r] =
                  [req[r] EXCEPT !.pc = "reg_template",
                     !.user = {Select(row, UserSelect \cup {"createdAt"})},
                     !.tokens = {generateTokens(row.id, now)}]]
          /\ UNCHANGED <<users, nextUserId>>
     \/ /\ ~ \E u \in users : u.email = req[r].email
        /\ nextUserId <= MaxUsers
        /\ LET row == NewUserRow(nextUserId, req[r], now)
           IN /\ users' = users \cup {row}
              /\ nextUserId' = nextUserId + 1
              /\ req' = [req EXCEPT ![r] =
                  [req[r] EXCEPT !.pc = "reg_template",
                     !.user = {Select(row, UserSelect \cup {"createdAt"})},
                     !.tokens = {generateTokens(row.id, now)}]]
  /\ UNCHANGED <<templates, nextTemplateId, now, ticks, held>>
  /\ UNCHANGED <<calc, render, browser>>

\* RegCreateUser on a table whose email column is not unique.
RegCreateUser_NotUnique(r) ==
  /\ req[r].pc = "reg_create"
  /\ nextUserId <= MaxUsers
  /\ LET row == NewUserRow(nextUserId, req[r], now)
     IN /\ users' = users \cup {row}
        /\ nextUserId' = nextUserId + 1
        /\ req' = [req EXCEPT ![r] =
                  [req[r] EXCEPT !.pc = "reg_template",
                     !.user = {Select(row, UserSelect \cup {"createdAt"})},
                     !.tokens = {generateTokens(row.id, now)}]]
  /\ UNCHANGED <<templates, nextTemplateId, now, ticks, held>>
  /\ UNCHANGED <<calc, render, browser>>

\* prisma.user.create answers (email is a unique column); then generateTokens.
RegCreateUser(r) ==
  /\ req[r].pc = "reg_create"
  /\ \/ /\ req' = [req EXCEPT ![r] =
                  Finish([req[r] EXCEPT !.threw = TRUE], InternalError)]
        /\ UNCHANGED <<users, nextUserId>>
     \/ /\ \E u \in users : u.email = req[r].email
        /\ req' = [req EXCEPT ![r] =
                  Finish([req[r] EXCEPT !.threw = TRUE], InternalError)]
        /\ UNCHANGED <<users, nextUserId>>
     \/ /\ ~ \E u \in users : u.email = req[r].email
        /\ nextUserId <= MaxUsers
        /\ LET row == NewUserRow(nextUserId, req[r], now)
           IN /\ users' = users \cup {row}
              /\ nextUserId' = nextUserId + 1
              /\ req' = [req EXCEPT ![r] =
                  [req[r] EXCEPT !.pc = "reg_template",
                     !.user = {Select(row, UserSelect \cup {"createdAt"})},
                     !.tokens = {generateTokens(row.id, now)}]]
  /\ UNCHANGED <<templates, nextTemplateId, now, ticks, held>>
  /\ UNCHANGED <<calc, render, browser>>

\* DefaultTemplateRow without the default flag.
DefaultTemplateRow_NotDefault(id, userId) ==
  [id |-> id, name |-> "Default Template", isDefault |-> FALSE,
   isActive |-> TRUE, userId |-> userId]

\* The row prisma.template.create inserts for the new user.
DefaultTemplateRow(id, userId) ==
  [id |-> id, name |-> "Default Template", isDefault |-> TRUE,
   isActive |-> TRUE, userId |-> userId]

\* prisma.template.create answers; then the 201 response.
RegCreateTemplate(r) ==
  /\ req[r].pc = "reg_template"
  /\ \/ /\ req' = [req EXCEPT ![r] =
                  Finish([req[r] EXCEPT !.threw = TRUE], InternalError)]
        /\ UNCHANGED <<templates, nextTemplateId, held>>
     \/ /\ nextTemplateId <= MaxTemplates
        /\ \E u \in req[r].user, pair \in req[r].tokens :
             /\ templates' = templates
                               \cup {DefaultTemplateRow(nextTemplateId, u.id)}
             /\ nextTemplateId' = nextTemplateId + 1
             /\ req' = [req EXCEPT ![r] =
                  Finish(req[r],
                         [Response(201, "", "User registered successfully")
                            EXCEPT !.user = {u}, !.tokens = {pair}])]
             /\ held' \in Deliver(pair)
  /\ UNCHANGED <<users, nextUserId, now, ticks>>
  /\ UNCHANGED <<calc, render, browser>>

(* ------------------------ POST /api/auth/login ------------------------ *)
\* Entry: validation, then the call of prisma.user.findUnique.
Login(r) ==
  /\ Free(r)
  /\ \E b \in LoginBodies :
       LET slot == Accept(r, Route("POST", <<"api", "auth", "login">>),
                          "POST", <<"api", "auth", "login">>, <<>>, b)
       IN /\ slot.handler = "login"
          /\ req' = [req EXCEPT ![r] =
               IF LoginErrors(b) # {}
               THEN Finish(slot, [Response(400, "", "Validation failed")
                                    EXCEPT !.details = LoginErrors(b)])
               ELSE [slot EXCEPT !.pc = "login_find",
                                 !.email = NormalizeEmail(b.email)]]
  /\ UNCHANGED <<users, templates, nextUserId, nextTemplateId, now, ticks, held>>
  /\ UNCHANGED <<calc, render, browser>>

\* LoginUserData as the row itself, as findUnique returned it.
LoginUserData_WholeRow(row) == row

\* userData of the login response: the row's fields copied one by one.
LoginUserData(row) == Select(row, UserSelect \cup {"createdAt"})

\* LoginFind telling the caller that no user has the email.
LoginFind_UserNotFound(r) ==
  /\ req[r].pc = "login_find"
  /\ \/ /\ req' = [req EXCEPT ![r] =
                  Finish([req[r] EXCEPT !.threw = TRUE], InternalError)]
        /\ UNCHANGED held
     \/ /\ ~ \E u \in users : u.email = req[r].email
        /\ req' = [req EXCEPT ![r] =
                  Finish(req[r], Response(404, "", "User not found"))]
        /\ UNCHANGED held
     \/ \E u \in users :
          /\ u.email = req[r].email
          /\ ~ Compare(req[r].body.password, u.password)
          /\ req' = [req EXCEPT ![r] =
                  Finish(req[r], Response(401, "", "Invalid credentials"))]
          /\ UNCHANGED held
     \/ \E u \in users :
          /\ u.email = req[r].email
          /\ Compare(req[r].body.password, u.password)
          /\ LET pair == generateTokens(u.id, now)
             IN /\ req' = [req EXCEPT ![r] =
                     Finish([req[r] EXCEPT !.tokens = {pair}],
                            [Response(200, "", "Login successful")
                               EXCEPT !.user = {LoginUserData(u)},
                                      !.tokens = {pair}])]
                /\ held' \in Deliver(pair)
  /\ UNCHANGED <<users, templates, nextUserId, nextTemplateId, now, ticks>>
  /\ UNCHANGED <<calc, render, browser>>

\* findUnique({ where: { email } }) answers; bcrypt.compare; generateTokens.
LoginFind(r) ==
  /\ req[r].pc = "login_find"
  /\ \/ /\ req' = [req EXCEPT ![r] =
                  Finish([req[r] EXCEPT !.threw = TRUE], InternalError)]
        /\ UNCHANGED held
     \/ /\ ~ \E u \in users : u.email = req[r].email
        /\ req' = [req EXCEPT ![r] =
                  Finish(req[r], Response(401, "", "Invalid credentials"))]
        /\ UNCHANGED held
     \/ \E u \in users :
          /\ u.email = req[r].email
          /\ ~ Compare(req[r].body.password, u.password)
          /\ req' = [req EXCEPT ![r] =
                  Finish(req[r], Response(401, "", "Invalid credentials"))]
          /\ UNCHANGED held
     \/ \E u \in users :
          /\ u.email = req[r].email
          /\ Compare(req[r].body.password, u.password)
          /\ LET pair == generateTokens(u.id, now)
             IN /\ req' = [req EXCEPT ![r] =
                     Finish([req[r] EXCEPT !.tokens = {pair}],
                            [Response(200, "", "Login successful")
                               EXCEPT !.user = {LoginUserData(u)},
                                      !.tokens = {pair}])]
                /\ held' \in Deliver(pair)
  /\ UNCHANGED <<users, templates, nextUserId, nextTemplateId, now, ticks>>
  /\ UNCHANGED <<calc, render, browser>>

(* ----------------------- POST /api/auth/refresh ----------------------- *)
\* A token nobody signed with the server's secret.
ForgedToken == Sign(1, 0, RefreshTTL + RefreshTTL + RefreshTTL, "other")

\* The tokens a client can send: those of the pairs it holds, or a forgery.
Presentable ==
  {p.accessToken : p \in held} \cup {p.refreshToken : p \in held}
    \cup {ForgedToken}

\* Entry: the body's refreshToken, jwt.verify, the call of findUnique.
Refresh(r) ==
  /\ Free(r)
  /\ \E given \in {{}} \cup {{t} : t \in Presentable} :
       LET slot == Accept(r, Route("POST", <<"api", "auth", "refresh">>),
                          "POST", <<"api", "auth", "refresh">>, <<>>,
                          [refreshToken |-> given])
           bad == Response(401, "", "Invalid refresh token")
       IN /\ slot.handler = "refresh"
          /\ req' = [req EXCEPT ![r] =
               IF given = {}
               THEN Finish(slot, Response(400, "", "Refresh token is required"))
               ELSE IF \E t \in given : Verify(t, now) # "ok"
               THEN Finish([slot EXCEPT !.clockTimestamp = now], bad)
               ELSE [slot EXCEPT !.pc = "refresh_find",
                                 !.clockTimestamp = now]]
  /\ UNCHANGED <<users, templates, nextUserId, nextTemplateId, now, ticks, held>>
  /\ UNCHANGED <<calc, render, browser>>

\* findUnique({ where: { id: decoded.userId } }) answers; generateTokens.
RefreshFind(r) ==
  /\ req[r].pc = "refresh_find"
  /\ \E t \in req[r].body.refreshToken :
       \/ /\ req' = [req EXCEPT ![r] =
                  Finish([req[r] EXCEPT !.threw = TRUE],
                         Response(401, "", "Invalid refresh token"))]
          /\ UNCHANGED held
       \/ /\ ~ \E u \in users : u.id = t.userId
          /\ req' = [req EXCEPT ![r] =
                  Finish(req[r], Response(401, "", "User not found"))]
          /\ UNCHANGED held
       \/ \E u \in users :
            /\ u.id = t.userId
            /\ LET pair == generateTokens(u.id, now)
               IN /\ req' = [req EXCEPT ![r] =
                       Finish([req[r] EXCEPT !.user = {Select(u, UserSelect)},
                                             !.tokens = {pair}],
                              [Response(200, "", "Token refreshed successfully")
                                 EXCEPT !.user = {Select(u, UserSelect)},
                                        !.tokens = {pair}])]
                  /\ held' \in Deliver(pair)
  /\ UNCHANGED <<users, templates, nextUserId, nextTemplateId, now, ticks>>
  /\ UNCHANGED <<calc, render, browser>>

(* -------------------------- authenticateToken ------------------------- *)
\* Requests to the five routers mounted behind authenticateToken.
ReadEndpoints ==
  { <<"GET", <<"api", "users", "profile">>>>,
    <<"GET", <<"api", "clients">>>>,
    <<"GET", <<"api", "invoices">>>>,
    <<"GET", <<"api", "templates">>>>,
    <<"POST", <<"api", "email", "send">>>> }

\* The two template requests that write the default flag.
TemplateEndpoints ==
  { <<"POST", <<"api", "templates">>>>,
    <<"PUT", <<"api", "templates", "id">>>> }

\* The authorization header, split at blanks; <<>> when there is none.
\* The header of a client that sends the access token it holds.
BearerHeaders == {<<"Bearer", p.accessToken>> : p \in held}

\* Any header a client can send: none, a scheme alone, a token under the
\* Bearer scheme or an access token under another scheme.
AuthHeaders ==
  {<<>>, <<"Bearer">>} \cup {<<"Bearer", t>> : t \in Presentable}
    \cup {<<"Token", p.accessToken>> : p \in held}

\* The bodies sent to an endpoint: the template named, the flag asked for.
Bodies(ep) ==
  IF ep = <<"POST", <<"api", "templates">>>>
  THEN [id : {0}, isDefault : BOOLEAN]
  ELSE IF ep = <<"PUT", <<"api", "templates", "id">>>>
  THEN [id : 1..MaxTemplates, isDefault : {TRUE}]
  ELSE {[none |-> TRUE]}

\* authHeader && authHeader.split(' ')[1]
HeaderToken(auth) == IF Len(auth) >= 2 THEN {auth[2]} ELSE {}

\* Entry: the header's token, jwt.verify, the call of findUnique.
Authenticate(r, endpoints, headers) ==
  /\ Free(r)
  /\ \E ep \in endpoints, auth \in headers :
     \E b \in Bodies(ep) :
       LET slot == Accept(r, Route(ep[1], ep[2]), ep[1], ep[2], auth, b)
           token == HeaderToken(auth)
       IN /\ slot.handler = "authenticateToken"
          /\ req' = [req EXCEPT ![r] =
               IF token = {}
               THEN Finish(slot, Response(401, "Access denied",
                                          "No token provided"))
               ELSE IF \E t \in token : Verify(t, now) = "TokenExpiredError"
               THEN Finish([slot EXCEPT !.clockTimestamp = now],
                           Response(401, "Token expired", "Please login again"))
               ELSE IF \E t \in token : Verify(t, now) = "JsonWebTokenError"
               THEN Finish([slot EXCEPT !.clockTimestamp = now],
                           Response(401, "Invalid token", "Please login again"))
               ELSE [slot EXCEPT !.pc = "auth_find", !.clockTimestamp = now]]
  /\ UNCHANGED <<users, templates, nextUserId, nextTemplateId, now, ticks, held>>
  /\ UNCHANGED <<calc, render, browser>>

\* findUnique({ where: { id: decoded.userId } }) answers; req.user; next().
AuthFind(r) ==
  /\ req[r].pc = "auth_find"
  /\ \E t \in HeaderToken(req[r].auth) :
       \/ req' = [req EXCEPT ![r] =
                  Finish([req[r] EXCEPT !.threw = TRUE],
                         Response(500, "Authentication error",
                                  "Internal server error"))]
       \/ /\ ~ \E u \in users : u.id = t.userId
          /\ req' = [req EXCEPT ![r] =
                  Finish(req[r], Response(401, "Access denied",
                                          "User not found"))]
       \/ \E u \in users :
            /\ u.id = t.userId
            /\ req' = [req EXCEPT ![r] =
                  [req[r] EXCEPT !.pc = "handler", !.invoked = TRUE,
                                 !.user = {Select(u, UserSelect)}]]
  /\ UNCHANGED <<users, templates, nextUserId, nextTemplateId, now, ticks, held>>
  /\ UNCHANGED <<calc, render, browser>>

(* --------------------- the routers behind the check ------------------- *)
\* Marking one template the owner's default clears the owner's other flags.
SetDefault(rows, owner, id) ==
  {IF t.userId = owner THEN [t EXCEPT !.isDefault = (t.id = id)] ELSE t :
     t \in rows}

\* POST /api/templates: a new template of the caller, default or not.
TemplateCreate(r) ==
  /\ req[r].pc = "handler"
  /\ req[r].method = "POST" /\ req[r].path = <<"api", "templates">>
  /\ nextTemplateId <= MaxTemplates
  /\ \E u \in req[r].user :
       LET row == [DefaultTemplateRow(nextTemplateId, u.id)
                     EXCEPT !.name = "Custom", !.isDefault = FALSE]
       IN templates' = IF req[r].body.isDefault
                       THEN SetDefault(templates \cup {row}, u.id, row.id)
                       ELSE templates \cup {row}
  /\ nextTemplateId' = nextTemplateId + 1
  /\ req' = [req EXCEPT ![r] = Finish(req[r], Response(201, "", "created"))]
  /\ UNCHANGED <<users, nextUserId, now, ticks, held>>
  /\ UNCHANGED <<calc, render, browser>>

\* PUT /api/templates/:id: the caller's template :id becomes the default.
TemplateSetDefault(r) ==
  /\ req[r].pc = "handler"
  /\ req[r].method = "PUT" /\ req[r].path = <<"api", "templates", "id">>
  /\ \E u \in req[r].user :
       IF \E t \in templates : t.id = req[r].body.id /\ t.userId = u.id
       THEN /\ templates' = SetDefault(templates, u.id, req[r].body.id)
            /\ req' = [req EXCEPT ![r] =
                         Finish(req[r], Response(200, "", "updated"))]
       ELSE /\ templates' = templates
            /\ req' = [req EXCEPT ![r] =
                         Finish(req[r], Response(404, "NotFound", "not found"))]
  /\ UNCHANGED <<users, nextUserId, nextTemplateId, now, ticks, held>>
  /\ UNCHANGED <<calc, render, browser>>

\* Any other route behind the check: it answers and changes nothing here.
OtherHandler(r) ==
  /\ req[r].pc = "handler"
  /\ <<req[r].method, req[r].path>> \in ReadEndpoints
  /\ req' = [req EXCEPT ![r] = Finish(req[r], Response(200, "", "ok"))]
  /\ UNCHANGED <<users, templates, nextUserId, nextTemplateId, now, ticks, held>>
  /\ UNCHANGED <<calc, render, browser>>

(* ------------------ /health, /api-docs and the 404 -------------------- *)
OpenEndpoints ==
  { <<"GET", <<"health">>>>,
    <<"GET", <<"api-docs">>>>,
    <<"GET", <<"nope">>>>,
    <<"GET", <<"api", "auth", "login">>>> } \cup DocsAuthEndpoints

Health(r) ==
  /\ Free(r)
  /\ \E ep \in OpenEndpoints :
       LET slot == Accept(r, Route(ep[1], ep[2]), ep[1], ep[2], <<>>,
                          [none |-> TRUE])
       IN /\ slot.handler = "health"
          /\ req' = [req EXCEPT ![r] =
               Finish(slot, Response(200, "",
                                     "Invoice Generator API is running"))]
  /\ UNCHANGED <<users, templates, nextUserId, nextTemplateId, now, ticks, held>>
  /\ UNCHANGED <<calc, render, browser>>

ApiDocs(r) ==
  /\ Free(r)
  /\ \E ep \in OpenEndpoints :
       LET slot == Accept(r, Route(ep[1], ep[2]), ep[1], ep[2], <<>>,
                          [none |-> TRUE])
       IN /\ slot.handler = "apiDocs"
          /\ req' = [req EXCEPT ![r] =
               Finish(slot, [Response(200, "",
                                      "Invoice Generator API Documentation")
                               EXCEPT !.details = DocsAuthEndpoints])]
  /\ UNCHANGED <<users, templates, nextUserId, nextTemplateId, now, ticks, held>>
  /\ UNCHANGED <<calc, render, browser>>

\* app.use('*', ...): whatever no earlier route answered.
NotFound(r) ==
  /\ Free(r)
  /\ \E ep \in OpenEndpoints :
       LET slot == Accept(r, Route(ep[1], ep[2]), ep[1], ep[2], <<>>,
                          [none |-> TRUE])
       IN /\ slot.handler = "notFound"
          /\ req' = [req EXCEPT ![r] =
               Finish(slot, Response(404, "Route not found", "Cannot"))]
  /\ UNCHANGED <<users, templates, nextUserId, nextTemplateId, now, ticks, held>>
  /\ UNCHANGED <<calc, render, browser>>

(* ----------------------- the clock and the client --------------------- *)
Tick ==
  /\ ticks < MaxTicks
  /\ \E d \in {AccessTTL, RefreshTTL} : now' = now + d
  /\ ticks' = ticks + 1
  /\ UNCHANGED <<users, templates, nextUserId, nextTemplateId, held, req>>
  /\ UNCHANGED <<calc, render, browser>>

\* One client at a time against the whole API, with the clock running.
Session(r) ==
  \/ Register(r)
  \/ RegFindExisting(r)
  \/ RegCreateUser(r)
  \/ RegCreateTemplate(r)
  \/ Login(r)
  \/ LoginFind(r)
  \/ Refresh(r)
  \/ RefreshFind(r)
  \/ Authenticate(r, ReadEndpoints, AuthHeaders)
  \/ AuthFind(r)
  \/ OtherHandler(r)
  \/ Health(r)
  \/ ApiDocs(r)
  \/ NotFound(r)

Next == Session(1) \/ Tick

Spec == Init /\ [][Next]_vars

\* Requests in flight together that write the user and template tables.
Writer(r) ==
  \/ Register(r)
  \/ RegFindExisting(r)
  \/ RegCreateUser(r)
  \/ RegCreateTemplate(r)
  \/ Authenticate(r, TemplateEndpoints, BearerHeaders)
  \/ AuthFind(r)
  \/ TemplateCreate(r)
  \/ TemplateSetDefault(r)

NextStore == \E r \in Slots : Writer(r)

SpecStore == Init /\ [][NextStore]_vars

\* Registrations and logins in flight together.
Credentials(r) ==
  \/ Register(r)
  \/ RegFindExisting(r)
  \/ RegCreateUser(r)
  \/ RegCreateTemplate(r)
  \/ Login(r)
  \/ LoginFind(r)

NextLogin == \E r \in Slots : Credentials(r)

SpecLogin == Init /\ [][NextLogin]_vars

(* ----------------------------- Data Binder ---------------------------- *)
MaxItems == 2       \* line items of an invoice

\* The tokens of a template body: text, {{name}}, {{#each items}}, {{/each}}.
Text(s) == [kind |-> "text", s |-> s]
Scalar(name) == [kind |-> "scalar", s |-> name]
EachOpen == [kind |-> "open", s |-> "items"]
EachClose == [kind |-> "close", s |-> ""]

\* getDefaultTemplateHTML with {{/each}} after the totals section.
getDefaultTemplateHTML_CloseAfterTotals ==
  << Text("<div class=invoice-template><div class=header><h1>"),
     Scalar("companyName"), Text("</h1><p>"),
     Scalar("companyAddress"), Text("</p><h2>INVOICE</h2><p>Invoice #:"),
     Scalar("invoiceNumber"), Text("</p><p>Date:"),
     Scalar("issueDate"), Text("</p><p>Due Date:"),
     Scalar("dueDate"), Text("</p></div><div class=client-info><p>"),
     Scalar("clientName"), Text("</p><p>"),
     Scalar("clientAddress"), Text("</p></div><table><tbody>"),
     EachOpen,
     Text("<tr><td>"), Scalar("description"),
     Text("</td><td>"), Scalar("quantity"),
     Text("</td><td>"), Scalar("unitPrice"),
     Text("</td><td>"), Scalar("total"), Text("</td></tr>"),
     Text("</tbody></table><div class=totals><p>Subtotal:"),
     Scalar("subtotal"), Text("</p><p>Tax ("),
     Scalar("taxRate"), Text("%):"),
     Scalar("taxAmount"), Text("</p><p>Total:"),
     Scalar("total"),
     EachClose,
     Text("</p></div><div class=footer><p>"),
     Scalar("notes"), Text("</p><p>"),
     Scalar("terms"), Text("</p></div></div>") >>

\* The default template's HTML, cut into its tokens.
getDefaultTemplateHTML ==
  << Text("<div class=invoice-template><div class=header><h1>"),
     Scalar("companyName"), Text("</h1><p>"),
     Scalar("companyAddress"), Text("</p><h2>INVOICE</h2><p>Invoice #:"),
     Scalar("invoiceNumber"), Text("</p><p>Date:"),
     Scalar("issueDate"), Text("</p><p>Due Date:"),
     Scalar("dueDate"), Text("</p></div><div class=client-info><p>"),
     Scalar("clientName"), Text("</p><p>"),
     Scalar("clientAddress"), Text("</p></div><table><tbody>"),
     EachOpen,
     Text("<tr><td>"), Scalar("description"),
     Text("</td><td>"), Scalar("quantity"),
     Text("</td><td>"), Scalar("unitPrice"),
     Text("</td><td>"), Scalar("total"), Text("</td></tr>"),
     EachClose,
     Text("</tbody></table><div class=totals><p>Subtotal:"),
     Scalar("subtotal"), Text("</p><p>Tax ("),
     Scalar("taxRate"), Text("%):"),
     Scalar("taxAmount"), Text("</p><p>Total:"),
     Scalar("total"), Text("</p></div><div class=footer><p>"),
     Scalar("notes"), Text("</p><p>"),
     Scalar("terms"), Text("</p></div></div>") >>

\* Templates a user stores beside the seeded one: the rows of
\* "description: total", and one that names an outer scalar inside the
\* block, an item field outside it and a field nothing has.
UserTemplates ==
  { << EachOpen, Scalar("description"), Text(": "), Scalar("total"),
       EachClose >>,
    << Scalar("description"), EachOpen, Scalar("invoiceNumber"), Text("/"),
       Scalar("description"), Scalar("discount"), EachClose,
       Scalar("quantity"), Scalar("total") >> }

\* The rows of the repeating block: what each line item exposes.
ItemRows ==
  { [description |-> "Consulting", quantity |-> "3",
     unitPrice |-> "$100.00", total |-> "$300.00"],
    [description |-> "Travel", quantity |-> "1",
     unitPrice |-> "$49.99", total |-> "$49.99"],
    [description |-> "<b>Rush</b>", quantity |-> "0.5",
     unitPrice |-> "$10.01", total |-> "$5.01"] }

\* The flat scalar fields of a RenderContext.
Scalars ==
  { [companyName |-> "Acme", companyAddress |-> "1 Main St",
     invoiceNumber |-> "INV-1", issueDate |-> "2024-01-01",
     dueDate |-> "2024-01-31", clientName |-> "<script>",
     clientAddress |-> "2 Side St", subtotal |-> "$349.99",
     taxRate |-> "8.25", taxAmount |-> "$28.87", total |-> "$378.86",
     notes |-> "Thanks", terms |-> "Net 30"],
    [companyName |-> "Acme", invoiceNumber |-> "INV-2",
     clientName |-> "Bo", subtotal |-> "$0.00", taxRate |-> "0",
     taxAmount |-> "$0.00", total |-> "$0.00"] }

\* The sequences over a set, up to a length.
SeqsUpTo(S, n) == UNION {[1..k -> S] : k \in 0..n}

\* HTML-entity escaping of a substituted value.
Escape(v) ==
  IF v = "<script>" THEN "&lt;script&gt;"
  ELSE IF v = "<b>Rush</b>" THEN "&lt;b&gt;Rush&lt;/b&gt;"
  ELSE v

\* The value of {{name}}: inside the block the item's row, then the outer
\* scalars; outside it the outer scalars; the empty string when none has it.
Resolve(name, rows, scalars) ==
  IF \E row \in rows : name \in DOMAIN row
  THEN (CHOOSE row \in rows : name \in DOMAIN row)[name]
  ELSE IF name \in DOMAIN scalars THEN scalars[name]
  ELSE ""

\* Where the block of a template opens and closes.
OpenAt(template) ==
  CHOOSE i \in 1..Len(template) : template[i].kind = "open"

CloseAt(template) ==
  CHOOSE i \in 1..Len(template) : template[i].kind = "close"

\* bind(invoice, template, ...) is called: the RenderContext is built.
InitRender ==
  /\ ServerInit
  /\ calc = Off
  /\ browser = Off
  /\ \E template \in {getDefaultTemplateHTML} \cup UserTemplates,
        items \in SeqsUpTo(ItemRows, MaxItems), scalars \in Scalars :
       render = [pc |-> "scan", template |-> template, items |-> items,
                 scalars |-> scalars, pos |-> 1, item |-> 0, out |-> <<>>]

\* The row the scan is inside of, if any.
CurrentRow == IF render.item = 0 THEN {} ELSE {render.items[render.item]}

BindAt(kind) ==
  /\ render.pc = "scan"
  /\ render.pos <= Len(render.template)
  /\ render.template[render.pos].kind = kind

\* A text token is copied.
BindText ==
  /\ BindAt("text")
  /\ render' = [render EXCEPT !.pos = @ + 1,
                  !.out = Append(@, render.template[render.pos].s)]
  /\ UNCHANGED <<users, templates, nextUserId, nextTemplateId, now, ticks,
                 held, req, calc, browser>>

\* A scalar token is replaced by its escaped value.
BindScalar ==
  /\ BindAt("scalar")
  /\ render' = [render EXCEPT !.pos = @ + 1,
                  !.out = Append(@, Escape(Resolve(render.template[render.pos].s,
                                                   CurrentRow, render.scalars)))]
  /\ UNCHANGED <<users, templates, nextUserId, nextTemplateId, now, ticks,
                 held, req, calc, browser>>

\* {{#each items}}: the first instantiation starts, or none when no items.
BindEachOpen ==
  /\ BindAt("open")
  /\ render' = IF render.items = <<>>
               THEN [render EXCEPT !.pos = CloseAt(render.template) + 1]
               ELSE [render EXCEPT !.pos = @ + 1, !.item = 1]
  /\ UNCHANGED <<users, templates, nextUserId, nextTemplateId, now, ticks,
                 held, req, calc, browser>>

\* {{/each}}: the next item's instantiation starts, or the block is left.
BindEachClose ==
  /\ BindAt("close")
  /\ render' = IF render.item < Len(render.items)
               THEN [render EXCEPT !.pos = OpenAt(render.template) + 1,
                                   !.item = @ + 1]
               ELSE [render EXCEPT !.pos = @ + 1, !.item = 0]
  /\ UNCHANGED <<users, templates, nextUserId, nextTemplateId, now, ticks,
                 held, req, calc, browser>>

\* The end of the template: the document is returned.
BindDone ==
  /\ render.pc = "scan"
  /\ render.pos > Len(render.template)
  /\ render' = [render EXCEPT !.pc = "done"]
  /\ UNCHANGED <<users, templates, nextUserId, nextTemplateId, now, ticks,
                 held, req, calc, browser>>

NextRender ==
  \/ BindText
  \/ BindScalar
  \/ BindEachOpen
  \/ BindEachClose
  \/ BindDone

SpecRender == InitRender /\ [][NextRender]_vars

(* -------------------------- Computation Engine ------------------------ *)
QuantityScale == 1000    \* a quantity is held in thousandths
RateScale == 10000       \* a tax rate is held in hundredths of a percent

\* Line items: quantity in thousandths, unit price in minor units (cents).
LineItems ==
  { [quantity |-> 3000, unitPrice |-> 10000],
    [quantity |-> 1000, unitPrice |-> 4999],
    [quantity |-> 500, unitPrice |-> 1001],
    [quantity |-> 1000, unitPrice |-> 100] }

\* Tax rates in hundredths of a percent: 0%, 8.25%, 2.5%.
TaxRates == {0, 825, 250}

\* RoundHalfUp cutting the fraction off.
RoundHalfUp_Truncate(n, d) == n \div d

\* round(n / d) to a whole minor unit, a half going up; n >= 0, d > 0.
RoundHalfUp(n, d) == (2 * n + d) \div (2 * d)

\* The engine is called with an invoice's line items and tax rate.
InitCompute ==
  /\ ServerInit
  /\ render = Off
  /\ browser = Off
  /\ \E items \in SeqsUpTo(LineItems, MaxItems), taxRate \in TaxRates :
       calc = [pc |-> "lines", items |-> items, taxRate |-> taxRate,
               lineTotals |-> <<>>, subtotal |-> 0, taxAmount |-> 0,
               total |-> 0]

\* The next line: its total is rounded, then added to the subtotal.
ComputeLine ==
  /\ calc.pc = "lines"
  /\ Len(calc.lineTotals) < Len(calc.items)
  /\ LET item == calc.items[Len(calc.lineTotals) + 1]
         lineTotal == RoundHalfUp(item.quantity * item.unitPrice,
                                  QuantityScale)
     IN calc' = [calc EXCEPT !.lineTotals = Append(@, lineTotal),
                             !.subtotal = @ + lineTotal]
  /\ UNCHANGED <<users, templates, nextUserId, nextTemplateId, now, ticks,
                 held, req, render, browser>>

\* After the last line: the tax on the subtotal, rounded.
ComputeTax ==
  /\ calc.pc = "lines"
  /\ Len(calc.lineTotals) = Len(calc.items)
  /\ calc' = [calc EXCEPT !.pc = "total",
                !.taxAmount = RoundHalfUp(calc.subtotal * calc.taxRate,
                                          RateScale)]
  /\ UNCHANGED <<users, templates, nextUserId, nextTemplateId, now, ticks,
                 held, req, render, browser>>

\* The total, and the result is returned.
ComputeTotal ==
  /\ calc.pc = "total"
  /\ calc' = [calc EXCEPT !.pc = "done",
                !.total = calc.subtotal + calc.taxAmount]
  /\ UNCHANGED <<users, templates, nextUserId, nextTemplateId, now, ticks,
                 held, req, render, browser>>

NextCompute ==
  \/ ComputeLine
  \/ ComputeTax
  \/ ComputeTotal

SpecCompute == InitCompute /\ [][NextCompute]_vars

(* ------------------- front end: AuthService, AuthProvider ------------- *)
\* JavaScript's undefined and null, beside the objects.
Undefined == [type |-> "undefined"]

Null == [type |-> "null"]

\* obj.key: undefined when the object has no such property.
Get(obj, key) == IF key \in DOMAIN obj THEN obj[key] ELSE Undefined

\* JSON.stringify(v): undefined for undefined, else the JSON text of v.
Stringify(v) == IF v = Undefined THEN Undefined ELSE [json |-> v]

\* localStorage.setItem(key, value) stores String(value).
Stored(value) ==
  IF value = Undefined THEN [text |-> "undefined"] ELSE value

\* JSON.parse(text) succeeds on JSON text and throws on any other.
Parses(text) == "json" \in DOMAIN text

Parse(text) == text.json

\* The body res.json sends: { success, message, data: { user, tokens } }, or
\* { success, error: { message, details } }.
Json(resp) ==
  IF resp.status < 400
  THEN [success |-> TRUE, message |-> resp.message,
        data |-> [user |-> CHOOSE u \in resp.user : TRUE,
                  tokens |-> CHOOSE pair \in resp.tokens : TRUE]]
  ELSE [success |-> FALSE,
        error |-> [message |-> resp.message, details |-> resp.details]]

\* What fetch resolves to: response.ok, response.status, response.json().
Reply(resp) ==
  [ok |-> resp.status < 400, status |-> resp.status, json |-> Json(resp)]

\* The row of the account a request body names, had it registered first.
AccountRow(b) ==
  NewUserRow(1, [email |-> NormalizeEmail(b.email),
                 hashedPassword |-> Hash(b.password, CHOOSE x \in Salts : TRUE),
                 body |-> [firstName |-> "Ann", lastName |-> "Lee",
                           currency |-> NULL]], 0)

\* The replies POST /api/auth/login gives to a body.
LoginReplies(b) ==
  IF LoginErrors(b) # {}
  THEN {Reply([Response(400, "", "Validation failed")
                 EXCEPT !.details = LoginErrors(b)])}
  ELSE {Reply(InternalError),
        Reply(Response(401, "", "Invalid credentials")),
        Reply([Response(200, "", "Login successful")
                 EXCEPT !.user = {LoginUserData(AccountRow(b))},
                        !.tokens = {generateTokens(1, 0)}])}

\* The replies POST /api/auth/register gives to a body.
RegisterReplies(b) ==
  IF RegisterErrors(b) # {}
  THEN {Reply([Response(400, "", "Validation failed")
                 EXCEPT !.details = RegisterErrors(b)])}
  ELSE {Reply(InternalError),
        Reply(Response(400, "", "User already exists with this email")),
        Reply([Response(201, "", "User registered successfully")
                 EXCEPT !.user = {Select(NewUserRow(1,
                                     [email |-> NormalizeEmail(b.email),
                                      hashedPassword |-> "", body |-> b], 0),
                                   UserSelect \cup {"createdAt"})},
                        !.tokens = {generateTokens(1, 0)}])}

\* The replies POST /api/auth/refresh gives.
RefreshReplies ==
  {Reply(Response(401, "", "Invalid refresh token")),
   Reply(Response(401, "", "User not found")),
   Reply([Response(200, "", "Token refreshed successfully")
            EXCEPT !.user = {Select(AccountRow([email |-> "a@x.io",
                                                password |-> "secret1"]),
                                    UserSelect)},
                   !.tokens = {generateTokens(1, AccessTTL)}])}

\* makeRequest: the body when response.ok, else an Error with the body's
\* error.message (all error bodies of the auth router carry one).
Thrown(reply) == reply.json.error.message

\* The page as it mounts: useState(null), useState(true), an empty
\* localStorage; initAuth is about to run.
InitBrowser ==
  /\ ServerInit
  /\ calc = Off
  /\ render = Off
  /\ browser = [pc |-> "mount", user |-> Null, loading |-> TRUE,
                authTokens |-> Null, op |-> "", sent |-> <<>>,
                reply |-> Null, error |-> ""]

\* The front end changes nothing on the server by itself.
ServerUnchanged ==
  UNCHANGED <<users, templates, nextUserId, nextTemplateId, now, ticks,
              held, req, calc, render>>

\* initAuth, from the effect to setLoading(false); getCurrentUser's reply is
\* the profile or an error.
InitAuth ==
  /\ browser.pc = "mount"
  /\ \E profile \in {Undefined, AccountRow([email |-> "a@x.io",
                                             password |-> "secret1"])} :
       browser' =
         IF browser.authTokens = Null
         THEN [browser EXCEPT !.pc = "idle", !.op = "initAuth",
                              !.loading = FALSE]
         ELSE IF ~Parses(browser.authTokens) \/ profile = Undefined
         THEN [browser EXCEPT !.pc = "idle", !.op = "initAuth",
                              !.loading = FALSE, !.authTokens = Null,
                              !.error = "Auth initialization error"]
         ELSE [browser EXCEPT !.pc = "idle", !.op = "initAuth",
                              !.loading = FALSE, !.user = profile]
  /\ ServerUnchanged

\* What the login form is submitted with.
LoginForms ==
  LoginBodies \cup {[email |-> "b@x.io", password |-> "hunter22"],
                    [email |-> "b@x.io", password |-> ""]}

\* login(email, password) up to the await: authService.login sends the fetch.
LoginCall ==
  /\ browser.pc = "idle"
  /\ \E b \in LoginForms :
       browser' = [browser EXCEPT !.pc = "login", !.op = "login",
                     !.sent = <<"POST", "/api/auth/login", b>>,
                     !.reply = Null, !.error = ""]
  /\ ServerUnchanged

\* login after the await: const { user: userData, tokens } = response;
\* setUser(userData); localStorage.setItem('authTokens', ...).
LoginReturn ==
  /\ browser.pc = "login"
  /\ \E reply \in LoginReplies(browser.sent[3]) :
       browser' =
         IF ~reply.ok
         THEN [browser EXCEPT !.pc = "idle", !.reply = reply,
                              !.error = Thrown(reply)]
         ELSE [browser EXCEPT !.pc = "idle", !.reply = reply,
                 !.user = Get(reply.json, "user"),
                 !.authTokens = Stored(Stringify(Get(reply.json, "tokens")))]
  /\ ServerUnchanged

\* register(userData) up to the await.
RegisterCall ==
  /\ browser.pc = "idle"
  /\ \E b \in RegisterBodies :
       browser' = [browser EXCEPT !.pc = "register", !.op = "register",
                     !.sent = <<"POST", "/api/auth/register", b>>,
                     !.reply = Null, !.error = ""]
  /\ ServerUnchanged

\* register after the await: const { user: newUser, tokens } = response.
RegisterReturn ==
  /\ browser.pc = "register"
  /\ \E reply \in RegisterReplies(browser.sent[3]) :
       browser' =
         IF ~reply.ok
         THEN [browser EXCEPT !.pc = "idle", !.reply = reply,
                              !.error = Thrown(reply)]
         ELSE [browser EXCEPT !.pc = "idle", !.reply = reply,
                 !.user = Get(reply.json, "user"),
                 !.authTokens = Stored(Stringify(Get(reply.json, "tokens")))]
  /\ ServerUnchanged

\* logout: setUser(null); localStorage.removeItem('authTokens').
Logout ==
  /\ browser.pc = "idle"
  /\ browser' = [browser EXCEPT !.op = "logout", !.user = Null,
                                !.authTokens = Null, !.error = ""]
  /\ ServerUnchanged

\* refreshToken, whole: no tokens, a failed parse or a refused refresh end
\* in logout(); else response.data.tokens replaces the stored pair.
RefreshToken ==
  /\ browser.pc = "idle"
  /\ \E reply \in RefreshReplies :
       browser' =
         IF ~Parses(browser.authTokens) \/ ~reply.ok
         THEN [browser EXCEPT !.op = "refreshToken", !.user = Null,
                              !.authTokens = Null,
                              !.error = "Token refresh error"]
         ELSE [browser EXCEPT !.op = "refreshToken", !.error = "",
                 !.sent = <<"POST", "/api/auth/refresh",
                            [refreshToken |->
                               Get(Parse(browser.authTokens), "refreshToken")]>>,
                 !.reply = reply,
                 !.authTokens = Stored(Stringify(reply.json.data.tokens))]
  /\ ServerUnchanged

\* The page is loaded again: React state is new, localStorage stays.
Reload ==
  /\ browser.pc = "idle"
  /\ browser' = [browser EXCEPT !.pc = "mount", !.op = "", !.user = Null,
                                !.loading = TRUE, !.sent = <<>>,
                                !.reply = Null, !.error = ""]
  /\ ServerUnchanged

NextBrowser ==
  \/ InitAuth
  \/ LoginCall
  \/ LoginReturn
  \/ RegisterCall
  \/ RegisterReturn
  \/ Logout
  \/ RefreshToken
  \/ Reload

SpecBrowser == InitBrowser /\ [][NextBrowser]_vars

(* ------------------------------ properties ---------------------------- *)
Answered(slot, handler) ==
  slot.handler = handler /\ slot.pc = "done" /\ Len(slot.resp) = 1

UserIds(slot) == {u.id : u \in slot.user}

C3_FailedRegisterLeavesNothing ==
  \A r \in Slots :
    (Answered(req[r], "register") /\ req[r].resp[1].status \in {400, 500})
      => ~ \E row \in users : row.id \in UserIds(req[r])

EmailTaken(e) == \E u \in users : u.email = e

\* C9: no two persisted users share an email and no two answered register
\* requests for one email both got 201; a register step taken while its
\* email belongs to a persisted user creates no user and no template and
\* answers 400 'User already exists with this email' (500 when the store
\* call itself threw), never 201.
C9_OneUserPerEmail ==
  [][/\ \A u, v \in users' : u.email = v.email => u = v
     /\ \A r, q \in Slots :
          ( /\ Answered(req'[r], "register") /\ Answered(req'[q], "register")
            /\ req'[r].resp[1].status = 201 /\ req'[q].resp[1].status = 201
            /\ req'[r].email = req'[q].email ) => r = q
     /\ \A r \in Slots :
          ( /\ req[r].handler = "register"
            /\ req[r].pc \in {"reg_find", "reg_create"}
            /\ req'[r] # req[r]
            /\ EmailTaken(req[r].email) ) =>
              /\ users' = users /\ templates' = templates
              /\ Answered(req'[r], "register")
              /\ \/ req'[r].resp[1] = InternalError /\ req'[r].threw
                 \/ req'[r].resp[1] =
                      Response(400, "", "User already exists with this email")
  ]_vars

\* Two register requests for one email were in flight together: the one
\* that lost the race passed the lookup and was answered 500; a later
\* request for the same email was answered 400; one user has the email.
W9_DuplicateRegistrations ==
  \E r, q \in Slots :
    /\ r # q
    /\ Answered(req[r], "register") /\ Answered(req[q], "register")
    /\ req[r].email = req[q].email
    /\ req[r].resp[1] = Response(400, "", "User already exists with this email")
    /\ req[q].hashedPassword # "" /\ req[q].resp[1].status = 500
    /\ req[q].user = {}
    /\ Cardinality({u \in users : u.email = req[r].email}) = 1

\* A token generateTokens issued, as the access or as the refresh token.
IssuedAs(t, ttl) == t.sig = "JWT_SECRET" /\ t.exp = t.iat + ttl

C5_TokenKindsKeptApart ==
  \A r \in Slots :
    /\ (req[r].handler = "authenticateToken" /\ req[r].invoked) =>
         \A t \in HeaderToken(req[r].auth) : ~IssuedAs(t, RefreshTTL)
    /\ (Answered(req[r], "refresh") /\ req[r].resp[1].status = 200) =>
         \A t \in req[r].body.refreshToken : ~IssuedAs(t, AccessTTL)

\* C6: the access token lives AccessTTL and the refresh token RefreshTTL
\* seconds from its issue, the first the shorter; a request that presents
\* an issued token at or after its exp is answered 401 'Token expired' by
\* authenticateToken without next(), and 401 without new tokens by refresh.
C6_ExpiredTokenRefused ==
  /\ AccessTTL < RefreshTTL
  /\ \A r \in Slots : \A p \in req[r].tokens :
       /\ IssuedAs(p.accessToken, AccessTTL)
       /\ IssuedAs(p.refreshToken, RefreshTTL)
       /\ p.accessToken.iat = p.refreshToken.iat
       /\ p.accessToken.iat <= now
  /\ \A r \in Slots :
       (req[r].handler = "authenticateToken"
          /\ \E t \in HeaderToken(req[r].auth) :
               t.sig = "JWT_SECRET" /\ t.exp <= req[r].clockTimestamp) =>
         /\ ~req[r].invoked
         /\ req[r].pc = "done"
         /\ req[r].resp =
              <<Response(401, "Token expired", "Please login again")>>
  /\ \A r \in Slots :
       (req[r].handler = "refresh"
          /\ \E t \in req[r].body.refreshToken :
               t.sig = "JWT_SECRET" /\ t.exp <= req[r].clockTimestamp) =>
         /\ req[r].pc = "done"
         /\ Len(req[r].resp) = 1
         /\ req[r].resp[1].status = 401
         /\ req[r].resp[1].tokens = {} /\ req[r].tokens = {}

\* An access token was refused as expired while the refresh token issued
\* with it would still verify.
W6_AccessExpiredRefreshAlive ==
  \E r \in Slots :
    /\ Answered(req[r], "authenticateToken")
    /\ req[r].resp[1].error = "Token expired"
    /\ \E t \in HeaderToken(req[r].auth) :
         /\ IssuedAs(t, AccessTTL)
         /\ req[r].clockTimestamp >= t.exp
         /\ req[r].clockTimestamp < t.iat + RefreshTTL

\* C7: a request during which a store call threw is answered with status
\* 500 and the message 'Internal server error', whichever of
\* authenticateToken, register, login and refresh was running.
C7_InternalFailureIs500 ==
  \A r \in Slots :
    req[r].threw =>
      /\ Len(req[r].resp) = 1
      /\ req[r].resp[1].status = 500
      /\ req[r].resp[1].message = "Internal server error"

\* C8: a request to an auth endpoint the /api-docs listing names is
\* answered by a route of the auth router, not by the 404 handler.
C8_DocumentedAuthRoutesExist ==
  \A r \in Slots :
    (req[r].pc # "idle" /\ <<req[r].method, req[r].path>> \in DocsAuthEndpoints)
      => req[r].handler \in {"register", "login", "refresh", "logout"}

PlainPasswords ==
  {b.password : b \in RegisterBodies} \cup {b.password : b \in LoginBodies}

StoredPasswords == {row.password : row \in users}

\* The text fields of a response, those of its user object included.
ResponseTexts(resp) ==
  {resp.error, resp.message}
    \cup UNION {{u[c] : c \in DOMAIN u \ {"id", "createdAt"}} : u \in resp.user}

\* C10: every stored password is the bcrypt hash of the password the
\* registration submitted, never that password itself; no response of
\* register, login or refresh has a user object with a password field, or
\* carries a stored hash anywhere.
C10_PasswordNeverLeaves ==
  /\ \A row \in users :
       /\ row.password \notin PlainPasswords
       /\ \E p \in PlainPasswords, salt \in Salts : row.password = Hash(p, salt)
  /\ \A r \in Slots :
       req[r].handler = "register" =>
         \A row \in users :
           row.id \in UserIds(req[r]) =>
             /\ Compare(req[r].body.password, row.password)
             /\ row.password # req[r].body.password
  /\ \A r \in Slots :
       req[r].handler \in {"register", "login", "refresh"} =>
         \A i \in 1..Len(req[r].resp) :
           /\ \A u \in req[r].resp[i].user : "password" \notin DOMAIN u
           /\ ResponseTexts(req[r].resp[i]) \cap StoredPasswords = {}
           /\ \A e \in req[r].resp[i].details :
                e.value \notin StoredPasswords
           /\ \A u \in req[r].user : "password" \notin DOMAIN u

\* A login was answered 200 with the user's data and a token pair.
W10_LoginAnswered ==
  \E r \in Slots :
    /\ Answered(req[r], "login")
    /\ req[r].resp[1].status = 200
    /\ \E u \in req[r].resp[1].user, row \in users :
         row.id = u.id /\ Compare(req[r].body.password, row.password)

\* What a token yields when it is bound against the given row (none outside
\* the block) and the outer scalars.
Piece(token, rows, scalars) ==
  IF token.kind = "text" THEN token.s
  ELSE IF \E row \in rows : token.s \in DOMAIN row
       THEN Escape((CHOOSE row \in rows : token.s \in DOMAIN row)[token.s])
  ELSE IF token.s \in DOMAIN scalars THEN Escape(scalars[token.s])
  ELSE ""

\* C11: the seeded default template has one {{#each items}} ... {{/each}}
\* block, with {{total}} inside it and again after it; a finished bind of any
\* template has copied the part before the block with its placeholders taken
\* from the outer scalars only, then the sub-template once per line item in
\* line-item order with its placeholders taken from that item's row, else
\* from the outer scalars, then the part after the block from the outer
\* scalars only.
C11_EachBlockBinding ==
  /\ LET t == getDefaultTemplateHTML
         inside == {t[i] : i \in (OpenAt(t) + 1)..(CloseAt(t) - 1)}
         outside == {t[i] : i \in 1..(OpenAt(t) - 1)}
                      \cup {t[i] : i \in (CloseAt(t) + 1)..Len(t)}
     IN /\ Cardinality({i \in 1..Len(t) : t[i].kind = "open"}) = 1
        /\ Cardinality({i \in 1..Len(t) : t[i].kind = "close"}) = 1
        /\ OpenAt(t) < CloseAt(t)
        /\ {x.s : x \in {y \in inside : y.kind = "scalar"}}
             = {"description", "quantity", "unitPrice", "total"}
        /\ Scalar("total") \in {t[i] : i \in (CloseAt(t) + 1)..Len(t)}
        /\ \A x \in outside : x.kind = "scalar" => x.s \in DOMAIN CHOOSE
             c \in Scalars : "terms" \in DOMAIN c
  /\ render.pc = "done" =>
       LET t == render.template
           open == OpenAt(t)
           close == CloseAt(t)
           k == close - open - 1
           n == Len(render.items)
       IN /\ Len(render.out) = (open - 1) + n * k + (Len(t) - close)
          /\ \A j \in 1..(open - 1) :
               render.out[j] = Piece(t[j], {}, render.scalars)
          /\ \A i \in 1..n : \A j \in 1..k :
               render.out[(open - 1) + (i - 1) * k + j]
                 = Piece(t[open + j], {render.items[i]}, render.scalars)
          /\ \A j \in (close + 1)..Len(t) :
               render.out[(open - 1) + n * k + (j - close)]
                 = Piece(t[j], {}, render.scalars)

\* The default template was bound for two different line items whose totals
\* differ from the invoice's total.
W11_DefaultTemplateTwoItems ==
  /\ render.pc = "done"
  /\ render.template = getDefaultTemplateHTML
  /\ Len(render.items) = 2
  /\ render.items[1].total # render.items[2].total
  /\ render.scalars.total \notin {render.items[1].total, render.items[2].total}

\* r is n / d rounded to the nearest whole number, a half going up.
IsHalfUp(r, n, d) == 2 * (r * d - n) <= d /\ 2 * (r * d - n) > 0 - d

RECURSIVE SumSeq(_)
SumSeq(q) == IF q = <<>> THEN 0 ELSE Head(q) + SumSeq(Tail(q))

\* C12: the result of the Computation Engine, in integer minor units: one
\* line total per item, in order, each quantity * unitPrice rounded half up;
\* subtotal their sum; taxAmount = subtotal * rate / 100 rounded half up;
\* total = subtotal + taxAmount.  3 x 100.00 and 1 x 49.99 at 8.25% give
\* 349.99, 28.87 and 378.86; no items give 0, 0 and 0.
C12_TotalsFromRoundedLines ==
  calc.pc = "done" =>
    /\ Len(calc.lineTotals) = Len(calc.items)
    /\ \A i \in 1..Len(calc.items) :
         IsHalfUp(calc.lineTotals[i],
                  calc.items[i].quantity * calc.items[i].unitPrice,
                  QuantityScale)
    /\ calc.subtotal = SumSeq(calc.lineTotals)
    /\ IsHalfUp(calc.taxAmount, calc.subtotal * calc.taxRate, RateScale)
    /\ calc.total = calc.subtotal + calc.taxAmount
    /\ ( /\ calc.items = << [quantity |-> 3000, unitPrice |-> 10000],
                            [quantity |-> 1000, unitPrice |-> 4999] >>
         /\ calc.taxRate = 825 ) =>
           /\ calc.lineTotals = <<30000, 4999>>
           /\ calc.subtotal = 34999
           /\ calc.taxAmount = 2887
           /\ calc.total = 37886
    /\ calc.items = <<>> =>
         calc.subtotal = 0 /\ calc.taxAmount = 0 /\ calc.total = 0

\* The engine returned for two lines of 0.5 x 10.01 each: the rounded line
\* totals add up to more than the rounded sum, and the tax is on that sum.
W12_RoundedLinesSummed ==
  /\ calc.pc = "done"
  /\ calc.items = << [quantity |-> 500, unitPrice |-> 1001],
                     [quantity |-> 500, unitPrice |-> 1001] >>
  /\ calc.taxRate = 825
  /\ calc.subtotal = 1002
  /\ calc.total = 1085

\* A login that passed validation and was refused for its credentials.
LoginRefused(slot) ==
  /\ Answered(slot, "login")
  /\ LoginErrors(slot.body) = {}
  /\ ~slot.threw
  /\ slot.resp[1].status # 200

\* C13: any two logins that passed validation and were refused, whether
\* their email was registered or not, got the same response: 401 'Invalid
\* credentials', with no user data and no tokens.
C13_LoginRefusalsAlike ==
  \A r, q \in Slots :
    (LoginRefused(req[r]) /\ LoginRefused(req[q])) =>
      /\ req[r].resp = req[q].resp
      /\ req[r].resp = <<Response(401, "", "Invalid credentials")>>
      /\ req[r].tokens = {}

\* Two refused logins side by side: one for an email no user has, one for
\* a registered email with a wrong password.
W13_UnknownEmailAndWrongPassword ==
  \E r, q \in Slots :
    /\ LoginRefused(req[r]) /\ LoginRefused(req[q])
    /\ ~EmailTaken(req[r].email)
    /\ \E u \in users :
         u.email = req[q].email /\ ~Compare(req[q].body.password, u.password)

\* C14: once login or register of the AuthProvider has resolved on a
\* successful reply, the context's user is the reply's data.user and
\* localStorage 'authTokens' holds the JSON text of the reply's data.tokens,
\* which parses back to a pair with accessToken and refreshToken.
C14_LoginKeepsUserAndTokens ==
  ( /\ browser.pc = "idle"
    /\ browser.op \in {"login", "register"}
    /\ browser.reply # Null
    /\ browser.reply.ok ) =>
      /\ browser.user = browser.reply.json.data.user
      /\ browser.authTokens = Stringify(browser.reply.json.data.tokens)
      /\ Parses(browser.authTokens)
      /\ {"accessToken", "refreshToken"} \subseteq DOMAIN Parse(browser.authTokens)
====
